---- MODULE Spec2Model ----
(***************************************************************************)
(* Model of src/App.js: the App component of the documentation site.       *)
(* It wires two renderers into the DocProvider (Demoboard and code), a     *)
(* BusyIndicator driven by useLoadingRoute(), and a NotFoundBoundary       *)
(* around the routed View.                                                 *)
(*                                                                         *)
(* JavaScript strings are sequences of one-character strings, so that      *)
(* split('.'), case and concatenation are computed rather than assumed.    *)
(* A JavaScript value is a record [t, s]: t is its type tag and s its      *)
(* characters (a string) or its identity (an object).                      *)
(* The opaque pass-through props id and style are not modelled.            *)
(***************************************************************************)
EXTENDS Integers, Sequences, FiniteSets

\* ------------------------------------------------------------ JS values

Undefined == [t |-> "undefined", s |-> <<>>]
Null == [t |-> "null", s |-> <<>>]
Str(chars) == [t |-> "string", s |-> chars]
Obj(tag) == [t |-> "object", s |-> <<tag>>]
\* A built-in function, by its name.
Fn(name) == [t |-> "function", s |-> name]

\* ToBoolean, as used by || and !!
ToBoolean(v) ==
  CASE v.t = "undefined" -> FALSE
    [] v.t = "null" -> FALSE
    [] v.t = "string" -> v.s # <<>>
    [] OTHER -> TRUE

\* ToString, as used by + on a string and by a property key
ToString(v) ==
  CASE v.t = "undefined" -> <<"u","n","d","e","f","i","n","e","d">>
    [] v.t = "null" -> <<"n","u","l","l">>
    [] v.t = "string" -> v.s
    [] v.t = "function" ->
         <<"f","u","n","c","t","i","o","n"," ">> \o v.s \o
         <<"(",")"," ","{"," ","[","n","a","t","i","v","e"," ","c","o","d","e","]"," ","}">>
    [] OTHER -> <<"[","o","b","j","e","c","t"," ","O","b","j","e","c","t","]">>

\* a || b
Or(a, b) == IF ToBoolean(a) THEN a ELSE b

\* --------------------------------------------------------- plain objects
\* A plain object: its own keys in insertion order, and their values.

EmptyObject == [keys |-> <<>>, val |-> <<>>]

Range(seq) == {seq[i] : i \in DOMAIN seq}

OwnIndex(obj, key) == CHOOSE i \in DOMAIN obj.keys : obj.keys[i] = key

ProtoKey == <<"_","_","p","r","o","t","o","_","_">>

ConstructorKey == <<"c","o","n","s","t","r","u","c","t","o","r">>

\* The names of the methods every plain object inherits from Object.prototype.
PrototypeMethods ==
  {<<"t","o","S","t","r","i","n","g">>,
   <<"t","o","L","o","c","a","l","e","S","t","r","i","n","g">>,
   <<"v","a","l","u","e","O","f">>,
   <<"h","a","s","O","w","n","P","r","o","p","e","r","t","y">>,
   <<"i","s","P","r","o","t","o","t","y","p","e","O","f">>,
   <<"p","r","o","p","e","r","t","y","I","s","E","n","u","m","e","r","a","b","l","e">>,
   <<"_","_","d","e","f","i","n","e","G","e","t","t","e","r","_","_">>,
   <<"_","_","d","e","f","i","n","e","S","e","t","t","e","r","_","_">>,
   <<"_","_","l","o","o","k","u","p","G","e","t","t","e","r","_","_">>,
   <<"_","_","l","o","o","k","u","p","S","e","t","t","e","r","_","_">>}

\* obj[key] on Object.prototype: constructor is the function Object, each
\* method is the function of its name, __proto__ is the prototype's own
\* prototype link read through a plain object (Object.prototype itself), and
\* any other name is undefined.
ObjectPrototype(key) ==
  IF key = ConstructorKey THEN Fn(<<"O","b","j","e","c","t">>)
  ELSE IF key \in PrototypeMethods THEN Fn(key)
  ELSE IF key = ProtoKey THEN Obj("Object.prototype")
  ELSE Undefined

\* obj[key] for a plain object: an own property, else what the lookup finds
\* on Object.prototype.
GetProp(obj, key) ==
  IF key \in Range(obj.keys) THEN obj.val[OwnIndex(obj, key)]
  ELSE ObjectPrototype(key)

Digits == {"0","1","2","3","4","5","6","7","8","9"}

DigitValue(c) ==
  CASE c = "0" -> 0 [] c = "1" -> 1 [] c = "2" -> 2 [] c = "3" -> 3
    [] c = "4" -> 4 [] c = "5" -> 5 [] c = "6" -> 6 [] c = "7" -> 7
    [] c = "8" -> 8 [] OTHER -> 9

\* a <= b for two decimal numerals of the same length, digit by digit.
RECURSIVE DigitsLeq(_, _)
DigitsLeq(a, b) ==
  IF a = <<>> THEN TRUE
  ELSE IF Head(a) = Head(b) THEN DigitsLeq(Tail(a), Tail(b))
  ELSE DigitValue(Head(a)) < DigitValue(Head(b))

\* a <= b for two decimal numerals without leading zeros.
NumeralLeq(a, b) ==
  Len(a) < Len(b) \/ (Len(a) = Len(b) /\ DigitsLeq(a, b))

\* The greatest array index, 2^32 - 2.
MaxArrayIndex == <<"4","2","9","4","9","6","7","2","9","4">>

\* An array index: a decimal numeral without a leading zero, at most 2^32 - 2.
\* Any other key, a greater numeral included, is an ordinary string key.
IsArrayIndex(key) ==
  /\ Len(key) >= 1
  /\ \A i \in DOMAIN key : key[i] \in Digits
  /\ (Len(key) > 1 => key[1] # "0")
  /\ NumeralLeq(key, MaxArrayIndex)

RECURSIVE SelectKeys(_, _)
SelectKeys(keys, wantIndex) ==
  IF keys = <<>> THEN <<>>
  ELSE IF IsArrayIndex(Head(keys)) = wantIndex
       THEN <<Head(keys)>> \o SelectKeys(Tail(keys), wantIndex)
       ELSE SelectKeys(Tail(keys), wantIndex)

RECURSIVE SortIndexKeys(_)
SortIndexKeys(keys) ==
  IF keys = <<>> THEN <<>>
  ELSE LET m == CHOOSE i \in DOMAIN keys :
                  \A j \in DOMAIN keys : NumeralLeq(keys[i], keys[j])
       IN <<keys[m]>> \o
          SortIndexKeys(SubSeq(keys, 1, m - 1) \o SubSeq(keys, m + 1, Len(keys)))

\* Object.keys(obj): array-index keys in ascending numeric order, then the
\* other keys in insertion order.
ObjectKeys(obj) ==
  SortIndexKeys(SelectKeys(obj.keys, TRUE)) \o SelectKeys(obj.keys, FALSE)

\* array[0]
First(array) == IF array = <<>> THEN Undefined ELSE Str(array[1])

\* ---------------------------------------------------------- JS strings

RECURSIVE Split(_, _)
\* chars.split(sep) for a one-character separator
Split(chars, sep) ==
  IF \A i \in DOMAIN chars : chars[i] # sep THEN <<chars>>
  ELSE LET p == CHOOSE i \in DOMAIN chars :
                  chars[i] = sep /\ \A j \in 1..(i - 1) : chars[j] # sep
       IN <<SubSeq(chars, 1, p - 1)>> \o Split(SubSeq(chars, p + 1, Len(chars)), sep)

\* array.reverse()
Reverse(array) == [i \in 1..Len(array) |-> array[Len(array) + 1 - i]]

\* ------------------------------------------------------- lookup tables

jsx == <<"j","s","x">>
js == <<"j","s">>
html == <<"h","t","m","l">>
css == <<"c","s","s">>
markup == <<"m","a","r","k","u","p">>
javascript == <<"j","a","v","a","s","c","r","i","p","t">>

\* const languages = { 'jsx': 'jsx', 'js': 'jsx', 'html': 'markup', 'css': 'css' }
LanguagesLiteral ==
  [keys |-> <<jsx, js, html, css>>,
   val |-> <<Str(jsx), Str(jsx), Str(markup), Str(css)>>]

\* const grammars = { 'jsx': 'javascript', 'html': 'html', 'css': 'css' }
GrammarsLiteral ==
  [keys |-> <<jsx, html, css>>,
   val |-> <<Str(javascript), Str(html), Str(css)>>]

\* --------------------------------------------------------------- Prism
\* The grammar registry of the prismjs main bundle (markup, css, clike,
\* javascript and their aliases).

PrismGrammarIds ==
  {markup, html, <<"x","m","l">>, <<"s","v","g">>, <<"m","a","t","h","m","l">>,
   css, <<"c","l","i","k","e">>, javascript, js}

\* Prism.languages[id]
PrismLanguages(id) ==
  IF ToString(id) \in PrismGrammarIds THEN Obj(ToString(id)) ELSE Undefined

\* The markup Prism produces for a text under a grammar: the empty text gives
\* the empty markup, any other text is wrapped in the grammar's tokens.
Highlighted(text, grammar) ==
  IF text = <<>> THEN <<>>
  ELSE <<"<span ">> \o grammar.s \o <<">">> \o text \o <<"</span>">>

\* Prism.highlight(text, grammar, language): tokenize reads grammar.rest and
\* text.length, so an undefined grammar or an undefined text is a TypeError
\* (later versions throw 'The language ... has no grammar' first).
PrismHighlight(text, grammar, language) ==
  IF grammar.t # "object" \/ text.t # "string"
  THEN [threw |-> TRUE, html |-> Undefined]
  ELSE [threw |-> FALSE, html |-> Str(Highlighted(text.s, grammar))]

\* ----------------------------------------------------------- Demoboard

LanguagePrefix == <<"l","a","n","g","u","a","g","e","-">>

\* 'language-'+language
ClassName(language) == Str(LanguagePrefix \o ToString(language))

\* The operands of || the other way round.
ActiveFilename_KeysFirst(editorPathname, sources) ==
  Or(First(ObjectKeys(sources)), editorPathname)

\* let filename = editorPathname || Object.keys(sources)[0]
ActiveFilename(editorPathname, sources) ==
  Or(editorPathname, First(ObjectKeys(sources)))

\* split('.')[0]: the reverse() left out.
Extension_NoReverse(filename) == First(Split(filename.s, "."))

\* let extension = filename.split('.').reverse()[0]
Extension(filename) == First(Reverse(Split(filename.s, ".")))

\* let language = languages[extension]
Language(langs, extension) == GetProp(langs, ToString(extension))

\* grammars[language]
GrammarId(grams, language) == GetProp(grams, ToString(language))

\* sources[filename] || ''
SourceText_OrEmpty(sources, filename) ==
  Or(GetProp(sources, ToString(filename)), Str(<<>>))

\* sources[filename]
SourceText(sources, filename) == GetProp(sources, ToString(filename))

NoOutput ==
  [done |-> FALSE, threw |-> FALSE, filename |-> Undefined,
   extension |-> Undefined, language |-> Undefined, grammarId |-> Undefined,
   called |-> FALSE, hlText |-> Undefined, hlGrammar |-> Undefined,
   hlLanguage |-> Undefined, className |-> Undefined, html |-> Undefined]

\* The body of the Demoboard component: the element it returns (className,
\* html) or that it threw, with the locals it computed and the arguments it
\* gave the highlighter.
DemoboardOut(editorPathname, sources, langs, grams) ==
  LET filename == ActiveFilename(editorPathname, sources)
  IN IF filename.t # "string"
     THEN \* undefined.split: TypeError
          [NoOutput EXCEPT !.done = TRUE, !.threw = TRUE]
     ELSE LET extension == Extension(filename)
              language == Language(langs, extension)
              grammarId == GrammarId(grams, language)
              text == SourceText(sources, filename)
              grammar == PrismLanguages(grammarId)
              hl == PrismHighlight(text, grammar, language)
          IN [done |-> TRUE, threw |-> hl.threw, filename |-> filename,
              extension |-> extension, language |-> language,
              grammarId |-> grammarId, called |-> TRUE, hlText |-> text,
              hlGrammar |-> grammar, hlLanguage |-> language,
              className |-> IF hl.threw THEN Undefined ELSE ClassName(language),
              html |-> hl.html]

\* A render that also records the looked-up language in the shared table.
Demoboard_CachesLanguage(editorPathname, sources, langs, grams) ==
  LET o == DemoboardOut(editorPathname, sources, langs, grams)
      ext == ToString(o.extension)
  IN [out |-> o,
      languages |-> IF o.called /\ ext \notin Range(langs.keys)
                    THEN [keys |-> Append(langs.keys, ext),
                          val |-> Append(langs.val, o.language)]
                    ELSE langs,
      grammars |-> grams, sources |-> sources]

\* One render of the Demoboard component: its result and the three objects
\* it was handed as they are afterwards (it assigns to none of them).
Demoboard(editorPathname, sources, langs, grams) ==
  [out |-> DemoboardOut(editorPathname, sources, langs, grams),
   languages |-> langs, grammars |-> grams, sources |-> sources]

\* ---------------------------------------------------------------- code

TextLabel == <<"t","e","x","t">>

\* The inline renderer highlighting its input again, as Demoboard does.
Code_Rehighlights(highlightedSource, language) ==
  LET lang == IF language = Undefined THEN Str(TextLabel) ELSE language
      hl == PrismHighlight(highlightedSource, PrismLanguages(Str(markup)), lang)
  IN [NoOutput EXCEPT !.done = TRUE, !.threw = hl.threw,
                      !.className = ClassName(lang), !.html = hl.html]

\* code: ({ highlightedSource, language='text', id, style }) => ...
Code(highlightedSource, language) ==
  LET lang == IF language = Undefined THEN Str(TextLabel) ELSE language
  IN [NoOutput EXCEPT !.done = TRUE, !.className = ClassName(lang),
                      !.html = highlightedSource]

\* ----------------------------------------------------------------- App

\* loadingRoute !== undefined
IsBusy_NotUndefined(route) == route # Undefined

\* isBusy={!!loadingRoute}
IsBusy(route) == ToBoolean(route)

NotFoundFallback == "<h1>Not Found</h1>"
ViewElement == "<View />"

\* react-navi's NotFoundBoundary: its render prop when the routing library
\* reports no document for the URL, its children otherwise.
NotFoundBoundary(noMatch, render, children) == IF noMatch THEN render ELSE children

\* <View /> without the boundary around it.
AppBoundary_Unwrapped(noMatch) == ViewElement

\* <NotFoundBoundary render={() => <h1>Not Found</h1>}><View /></NotFoundBoundary>
AppBoundary(noMatch) == NotFoundBoundary(noMatch, NotFoundFallback, ViewElement)

\* ------------------------------------------------------------- inputs

\* The most files one sources mapping holds.
MaxSources == 2

\* File names a sources mapping may use as keys: the four known extensions,
\* no extension, an extension in another letter case, several dots, two
\* array-index names whose numeric and insertion orders differ, a numeral just
\* above the greatest array index, and an extension that names an inherited
\* property.
SourceNames ==
  {<<"a",".","j","s">>, <<"b",".","j","s","x">>, <<"i",".","h","t","m","l">>,
   <<"s",".","c","s","s">>, <<"R","E","A","D","M","E">>, <<"a",".","J","S">>,
   <<"j","s",".","m","i","n",".","c","s","s">>, <<"j","s",".","t","x","t">>,
   <<"2">>, <<"1","0">>, <<"4","2","9","4","9","6","7","2","9","5">>,
   <<"x",".","c","o","n","s","t","r","u","c","t","o","r">>}

\* Names only an editorPathname uses: a leading slash as the guides write it,
\* inherited property names, a bare table key, a trailing dot.
OtherNames ==
  {<<"/","a",".","j","s">>, ProtoKey, <<"t","o","S","t","r","i","n","g">>, js, <<"a",".">>}

\* The content bundle: the raw text of each file (one file is empty).
Bundle(name) ==
  IF name = <<"s",".","c","s","s">> THEN <<>>
  ELSE <<"/","*"," ">> \o name \o <<" ","*","/">>

KeyLists ==
  {k \in UNION {[1..n -> SourceNames] : n \in 0..MaxSources} :
     \A i, j \in DOMAIN k : i # j => k[i] # k[j]}

SourcesOf(keys) == [keys |-> keys, val |-> [i \in DOMAIN keys |-> Str(Bundle(keys[i]))]]

EditorPathnames ==
  {Undefined, Str(<<>>)} \cup {Str(n) : n \in SourceNames \cup OtherNames}

HighlightedSources ==
  {<<>>, <<"a"," ","<"," ","b">>, <<"<span>","x","</span>">>}

CodeLanguages == {Undefined, Str(TextLabel), Str(js), Str(<<"J","S">>)}

\* The blocks of a document: a demoboard block or an inline code block.
Blocks ==
  {[component |-> "Demoboard", editorPathname |-> e, sources |-> SourcesOf(k),
    highlightedSource |-> Undefined, language |-> Undefined] :
     e \in EditorPathnames, k \in KeyLists}
  \cup
  {[component |-> "code", editorPathname |-> Undefined, sources |-> EmptyObject,
    highlightedSource |-> Str(h), language |-> l] :
     h \in HighlightedSources, l \in CodeLanguages}

\* What useLoadingRoute() may return.
LoadingRoutes == {Undefined, Null, Obj("route")}

\* -------------------------------------------------------- state machine

VARIABLES
  languages,     \* the module-level extension -> language object
  grammars,      \* the module-level language -> grammar object
  block,         \* the props of the block being rendered, as authored
  sources,       \* the sources object of the block, as it is now
  out,           \* the last render of the block
  loadingRoute,  \* the routing library's loading-route signal
  isBusy,        \* the isBusy prop the BusyIndicator last received
  noMatch,       \* the routing library reports no document for the URL
  boundary       \* what the NotFoundBoundary shows

vars == <<languages, grammars, block, sources, out, loadingRoute, isBusy,
          noMatch, boundary>>

Init ==
  /\ languages = LanguagesLiteral
  /\ grammars = GrammarsLiteral
  /\ block \in Blocks
  /\ sources = block.sources
  /\ out = NoOutput
  /\ loadingRoute = Undefined
  /\ isBusy = IsBusy(Undefined)
  /\ noMatch = FALSE
  /\ boundary = AppBoundary(FALSE)

\* The DocProvider renders a demoboard block with the Demoboard component.
RenderDemoboard ==
  /\ block.component = "Demoboard"
  /\ LET r == Demoboard(block.editorPathname, sources, languages, grammars)
     IN /\ out' = r.out
        /\ languages' = r.languages
        /\ grammars' = r.grammars
        /\ sources' = r.sources
  /\ UNCHANGED <<block, loadingRoute, isBusy, noMatch, boundary>>

\* The DocProvider renders an inline code block with the code component.
RenderCode ==
  /\ block.component = "code"
  /\ out' = Code(block.highlightedSource, block.language)
  /\ UNCHANGED <<languages, grammars, block, sources, loadingRoute, isBusy,
                 noMatch, boundary>>

\* The loading-route signal changes and App renders again.
LoadingRouteChange ==
  /\ \E r \in LoadingRoutes :
       /\ r # loadingRoute
       /\ loadingRoute' = r
       /\ isBusy' = IsBusy(r)
  /\ UNCHANGED <<languages, grammars, block, sources, out, noMatch, boundary>>

\* The routing library resolves the URL: to a document, or to none.
RouteResolved ==
  /\ \E m \in BOOLEAN :
       /\ noMatch' = m
       /\ boundary' = AppBoundary(m)
  /\ UNCHANGED <<languages, grammars, block, sources, out, loadingRoute, isBusy>>

Next == RenderDemoboard \/ RenderCode \/ LoadingRouteChange \/ RouteResolved

Spec == Init /\ [][Next]_vars

\* --------------------------------------------------------------- claims

DemoRendered == block.component = "Demoboard" /\ out.done
CodeRendered == block.component = "code" /\ out.done
NonEmptyString(v) == v.t = "string" /\ v.s # <<>>

UpperCase == <<"A","B","C","D","E","F","G","H","I","J","K","L","M",
               "N","O","P","Q","R","S","T","U","V","W","X","Y","Z">>
LowerCase == <<"a","b","c","d","e","f","g","h","i","j","k","l","m",
               "n","o","p","q","r","s","t","u","v","w","x","y","z">>
ToLowerChar(c) ==
  IF c \in Range(UpperCase)
  THEN LowerCase[CHOOSE i \in DOMAIN UpperCase : UpperCase[i] = c]
  ELSE c
ToLowerCase(chars) == [i \in DOMAIN chars |-> ToLowerChar(chars[i])]

\* The key Object.keys lists first, said without Object.keys: the array-index
\* key (a canonical numeral up to 2^32 - 2) of least numeric value when there
\* is one, else the first key inserted.
FirstListedKey(keys) ==
  IF \E i \in DOMAIN keys : IsArrayIndex(keys[i])
  THEN keys[CHOOSE i \in DOMAIN keys :
              /\ IsArrayIndex(keys[i])
              /\ \A j \in DOMAIN keys :
                   IsArrayIndex(keys[j]) => NumeralLeq(keys[i], keys[j])]
  ELSE keys[1]

\* C1 as claimed: with a non-empty sources mapping the active filename is
\* editorPathname when it is present and else the first key of sources in
\* insertion order; an editorPathname that is a key of sources is the active
\* file wherever that key sits; the highlighter's text is sources[active file].
C1_ActiveFileAsClaimed ==
  (DemoRendered /\ block.sources.keys # <<>>) =>
    /\ out.filename = IF block.editorPathname # Undefined
                      THEN block.editorPathname
                      ELSE Str(block.sources.keys[1])
    /\ (block.editorPathname.s \in Range(block.sources.keys)
          => out.filename = block.editorPathname)
    /\ out.called
    /\ out.hlText = GetProp(block.sources, out.filename.s)

\* C1 as amended: with a non-empty sources mapping the active filename is
\* editorPathname when it is a non-empty string, and else (absent or empty)
\* the first key Object.keys lists: the array-index key of least numeric value
\* when sources has one, else the first key in insertion order; a non-empty
\* editorPathname that is a key of sources is the active file wherever that
\* key sits; the highlighter's text is sources[active file].
C1_ActiveFile ==
  (DemoRendered /\ block.sources.keys # <<>>) =>
    /\ out.filename = IF NonEmptyString(block.editorPathname)
                      THEN block.editorPathname
                      ELSE Str(FirstListedKey(block.sources.keys))
    /\ (NonEmptyString(block.editorPathname)
        /\ block.editorPathname.s \in Range(block.sources.keys)
          => out.filename = block.editorPathname)
    /\ out.called
    /\ out.hlText = GetProp(block.sources, out.filename.s)

\* A demoboard rendered whose editorPathname is the second key of sources.
C1_Witness ==
  /\ DemoRendered
  /\ Len(block.sources.keys) = 2
  /\ block.editorPathname = Str(block.sources.keys[2])
  /\ out.filename = block.editorPathname
  /\ out.hlText = block.sources.val[2]
  /\ ~out.threw

KnownExtension == out.filename.t = "string" /\ out.extension.s \in Range(LanguagesLiteral.keys)

\* C2: for a filename whose extension is a key of the extension -> language
\* table, the language is the label configured for the extension, the grammar
\* identifier is the one configured for that label in the language -> grammar
\* table, and the highlighter is called with (sources[filename],
\* Prism.languages[that identifier], that label).
C2_KnownExtensionResolves ==
  (DemoRendered /\ KnownExtension) =>
    /\ out.language = GetProp(LanguagesLiteral, out.extension.s)
    /\ out.language.s \in Range(GrammarsLiteral.keys)
    /\ out.grammarId = GetProp(GrammarsLiteral, out.language.s)
    /\ out.called
    /\ out.hlText = GetProp(block.sources, out.filename.s)
    /\ out.hlGrammar = PrismLanguages(out.grammarId)
    /\ out.hlLanguage = out.language

\* C3: for an active filename whose extension is not a key of the extension ->
\* language table, the language is undefined and the render does not throw: it
\* shows the raw source text.
C3_UnknownExtensionDegrades ==
  (DemoRendered /\ out.filename.t = "string" /\ ~KnownExtension) =>
    /\ out.language = Undefined
    /\ ~out.threw
    /\ out.html = out.hlText

EditorPathnameAbsentFromSources ==
  block.editorPathname.s \notin Range(block.sources.keys)

\* C4 as claimed: an editorPathname that is present and not a key of sources
\* makes the render fail, with no widget rendered; the active file is never
\* another file of sources.
C4_MissingFileFailsAsClaimed ==
  (DemoRendered /\ block.editorPathname # Undefined
   /\ EditorPathnameAbsentFromSources) =>
    /\ out.threw
    /\ out.html = Undefined
    /\ ~(out.filename.t = "string"
         /\ out.filename.s \in Range(block.sources.keys))

\* C4 as amended: an editorPathname that is a non-empty string and not a key
\* of sources makes every render of the block throw, with that name as the
\* active file and nothing rendered; the empty string counts as absent and
\* falls back to the first key Object.keys lists.
C4_MissingFileFails ==
  /\ (DemoRendered /\ NonEmptyString(block.editorPathname)
      /\ EditorPathnameAbsentFromSources) =>
       /\ out.threw
       /\ out.filename = block.editorPathname
       /\ out.html = Undefined
       /\ out.className = Undefined
  /\ (DemoRendered /\ block.editorPathname = Str(<<>>)
      /\ block.sources.keys # <<>>) =>
       out.filename = Str(FirstListedKey(block.sources.keys))

\* A demoboard rendered as the guides write it: editorPathname /a.js beside
\* a source named a.js, which is highlightable on its own.
C4_Witness ==
  /\ DemoRendered
  /\ block.editorPathname = Str(<<"/","a",".","j","s">>)
  /\ <<"a",".","j","s">> \in Range(block.sources.keys)
  /\ out.hlGrammar = Obj(javascript)
  /\ out.hlText = Undefined
  /\ out.threw

\* C5: the code renderer injects exactly highlightedSource; language defaults
\* to "text" and only selects the class language-<label>.
C5_CodeInjectsExactly ==
  CodeRendered =>
    /\ ~out.threw
    /\ out.html = block.highlightedSource
    /\ out.className =
         Str(LanguagePrefix \o (IF block.language = Undefined THEN TextLabel
                                ELSE block.language.s))

\* An inline code block rendered with empty markup and no language.
C5_Witness ==
  /\ CodeRendered
  /\ block.highlightedSource = Str(<<>>)
  /\ block.language = Undefined
  /\ out.html = Str(<<>>)
  /\ out.className = Str(LanguagePrefix \o TextLabel)

\* C6: isBusy is true exactly when the current loading-route signal is
\* neither null nor undefined, whatever the signal was before.
C6_BusyIffLoading ==
  isBusy <=> (loadingRoute # Null /\ loadingRoute # Undefined)

\* The signal has changed to null, and the indicator is off.
C6_Witness == loadingRoute = Null /\ isBusy = FALSE

\* C7: the boundary shows the not-found fallback exactly when the routing
\* library reports no document, and the routed View otherwise.
C7_FallbackIffNoMatch ==
  /\ (boundary = NotFoundFallback) <=> noMatch
  /\ ~noMatch => boundary = ViewElement

\* No document matches and the fallback is shown.
C7_Witness == noMatch /\ boundary = NotFoundFallback

\* C8: the extension is what follows the last "." of the filename (the whole
\* filename when it has none), and the lookup is case-sensitive: an extension
\* that differs from a table key only in letter case is unknown.
C8_ExtensionIsLastSegment ==
  (DemoRendered /\ out.filename.t = "string") =>
    LET f == out.filename.s
        e == out.extension.s
    IN /\ out.extension.t = "string"
       /\ "." \notin Range(e)
       /\ Len(e) <= Len(f)
       /\ e = SubSeq(f, Len(f) - Len(e) + 1, Len(f))
       /\ (Len(e) < Len(f) => f[Len(f) - Len(e)] = ".")
       /\ ("." \notin Range(f) => e = f)
       /\ (e \notin Range(LanguagesLiteral.keys)
           /\ ToLowerCase(e) \in Range(LanguagesLiteral.keys)
             => out.language = Undefined)
       /\ (e \in Range(LanguagesLiteral.keys)
             => out.language = GetProp(LanguagesLiteral, e))

\* A file named a.JS rendered: its extension is JS, which is not the key js.
C8_Witness ==
  /\ DemoRendered
  /\ out.filename = Str(<<"a",".","J","S">>)
  /\ out.extension = Str(<<"J","S">>)
  /\ out.language = Undefined

\* C9: every language label the extension -> language table yields is a key
\* of the language -> grammar table, so the second lookup is never undefined.
C9_TablesConsistent ==
  \A i \in DOMAIN languages.keys :
    /\ languages.val[i].s \in Range(grammars.keys)
    /\ GrammarId(grammars, languages.val[i]) # Undefined

\* C10: whatever was rendered, failed renders included, the two tables and the
\* sources mapping handed in are as they were.
C10_TablesAndSourcesUnchanged ==
  /\ languages = LanguagesLiteral
  /\ grammars = GrammarsLiteral
  /\ sources = block.sources

\* A demoboard render that threw on a file of unknown extension.
C10_Witness ==
  /\ DemoRendered
  /\ out.threw
  /\ out.called
  /\ ~KnownExtension
  /\ languages = LanguagesLiteral
  /\ sources = block.sources

====
